---- MODULE Spec2Model ----
(***************************************************************************)
(* Delayed webhook scheduler (Cloudflare Durable Object with one alarm).   *)
(* src/src/index.ts holds two variants of the same worker:                 *)
(*   - the "dynamic" variant (lines 1-285): the target URL and the delay   *)
(*     come with each request (x-webhook-url, x-delay-seconds);            *)
(*   - the "static" variant (lines 287-561): the target URL, the delay and *)
(*     the trigger method come from the environment bindings.              *)
(* A JavaScript object is modelled as a function whose DOMAIN is the set   *)
(* of its defined properties; strings on which the code works character by *)
(* character are sequences of one-character strings.                       *)
(***************************************************************************)
EXTENDS Integers, Sequences, FiniteSets, TLC

VARIABLES
    mode,       \* which variant of the worker is deployed: "dynamic" | "static"
    env,        \* the environment bindings (Env)
    storage,    \* ctx.storage key-value store: key -> stored value
    alarm,      \* ctx.storage alarm: {} when none is armed, {t} when armed for t
    now,        \* Date.now()
    pc,         \* alarm(): "idle", or "fetching" while suspended in fetch()
    local,      \* alarm(): its local `state` object while suspended in fetch()
    lastReq,    \* history: the last accepted queueBuild call
    nReq,       \* history: number of accepted queueBuild calls
    burst,      \* history: accepted queueBuild calls since alarm() last ran
    calls,      \* history: trigger calls started since the last queueBuild call
    lastCall,   \* history: the last trigger call started
    lastOp,     \* history: the handler path that ran last
    ticks,      \* history: number of Tick steps taken
    streak,     \* history: failed alarm() runs since the last success or queueBuild
    resp,       \* the worker's fetch(): the response to the last request
    qpc,        \* a handler between its put and its setAlarm: the alarm to arm
    errIn,      \* truncateError: the error message given
    errOut,     \* truncateError: the message stored as lastError
    nFetch,     \* history: number of requests the worker has answered
    inFlight    \* the worker's fetch(): the responses of the requests that
                \* await the return of their call into the Durable Object

vars == <<mode, env, storage, alarm, now, pc, local,
          lastReq, nReq, burst, calls, lastCall, lastOp, ticks,
          streak, resp, qpc, errIn, errOut, nFetch, inFlight>>

hist == <<lastReq, nReq, burst, calls, lastCall, lastOp, streak>>

\* The variables the scheduler's own steps leave alone
aux == <<resp, qpc, errIn, errOut, nFetch, inFlight>>

-----------------------------------------------------------------------------
(* Bounds of the model *)

StartTime == 1000000
MaxElapsedMs == 900000
TickMs == 30000
MaxTicks == 1
MaxRequests == 2
MaxFetches == 2
GatewayElapsedMs == 200000
MaxMessageLen == 502
MaxRedeliveries == 2

DelaySecondsInputs == {30, 600}
\* "https://a.example/build"
WebhookUrlInputs ==
    {<<"h","t","t","p","s",":","/","/","a",".","e","x","a","m","p","l","e",
       "/","b","u","i","l","d">>}

-----------------------------------------------------------------------------
(* JavaScript objects and strings *)

EmptyObject == [k \in {} |-> 0]

Has(o, k) == k \in DOMAIN o

SetProp(o, k, v) == [x \in (DOMAIN o) \cup {k} |-> IF x = k THEN v ELSE o[x]]

DelProp(o, k) == [x \in (DOMAIN o) \ {k} |-> o[x]]

\* JavaScript's Infinity. A number of the code is an integer or Infinity
Infinity == "Infinity"

\* x === Infinity. TLC compares a string with an integer by no operator, so
\* the two are told apart by what they are printed as
IsInfinity(x) == ToString(x) = ToString(Infinity)

\* !value for a number-valued optional property: undefined and 0 are falsy
TruthyNum(o, k) == Has(o, k) /\ (IsInfinity(o[k]) \/ o[k] # 0)

\* !value for a string-valued optional property: undefined and "" are falsy
TruthyStr(o, k) == Has(o, k) /\ o[k] # ""

\* !value for a character-sequence-valued optional property
TruthyChars(o, k) == Has(o, k) /\ Len(o[k]) > 0

Min(a, b) == IF a < b THEN a ELSE b

Digits == <<"0","1","2","3","4","5","6","7","8","9">>

IsDigit(c) == \E i \in 1..10 : Digits[i] = c

DigitValue(c) == (CHOOSE i \in 1..10 : Digits[i] = c) - 1

\* A string is a sequence of characters. A character of the printable ASCII
\* range, a tab, a line feed, a carriage return and a form feed are written
\* as themselves; every other code point is written by its name, "U+00A0".

\* StrWhiteSpaceChar, the characters Number.parseInt skips: WhiteSpace (tab,
\* U+000B, form feed, U+FEFF and the space separators) and LineTerminator
WhiteSpace ==
    {"\t", "\f", " ", "U+000B", "U+00A0", "U+FEFF", "U+1680",
     "U+2000", "U+2001", "U+2002", "U+2003", "U+2004", "U+2005", "U+2006",
     "U+2007", "U+2008", "U+2009", "U+200A", "U+202F", "U+205F", "U+3000"}

LineTerminator == {"\n", "\r", "U+2028", "U+2029"}

IsSpace(c) == c \in WhiteSpace \cup LineTerminator

RECURSIVE ToDecimal(_)
ToDecimal(n) ==
    IF n < 10 THEN <<Digits[n + 1]>>
    ELSE ToDecimal(n \div 10) \o <<Digits[(n % 10) + 1]>>

\* The number of white space characters s begins with
CountSpaces(s) ==
    CHOOSE k \in 0..Len(s) :
        /\ \A i \in 1..k : IsSpace(s[i])
        /\ k = Len(s) \/ ~IsSpace(s[k + 1])

SkipSpaces(s) == SubSeq(s, CountSpaces(s) + 1, Len(s))

\* The number of digits s begins with
CountDigits(s) ==
    CHOOSE k \in 0..Len(s) :
        /\ \A i \in 1..k : IsDigit(s[i])
        /\ k = Len(s) \/ ~IsDigit(s[k + 1])

DigitPrefix(s) == SubSeq(s, 1, CountDigits(s))

\* The number of zeros ds begins with
CountZeros(ds) ==
    CHOOSE k \in 0..Len(ds) :
        /\ \A i \in 1..k : ds[i] = "0"
        /\ k = Len(ds) \/ ds[k + 1] # "0"

\* The digits ds without their leading zeros, the last digit always kept
SkipZeros(ds) ==
    IF Len(ds) = 0 THEN ds
    ELSE SubSeq(ds, Min(CountZeros(ds), Len(ds) - 1) + 1, Len(ds))

RECURSIVE DecimalValue(_)
DecimalValue(ds) ==
    IF Len(ds) = 0 THEN 0
    ELSE DecimalValue(SubSeq(ds, 1, Len(ds) - 1)) * 10 + DigitValue(ds[Len(ds)])

\* The spacing of the doubles around n: 1 below 2^53, doubling with each
\* binary order of magnitude above it
RECURSIVE Ulp(_, _)
Ulp(n, u) == IF n < (2^53) * u THEN u ELSE Ulp(n, 2 * u)

\* The double nearest to the natural number n, ties to the even mantissa
RoundToDouble(n) ==
    LET u == Ulp(n, 1)
        q == n \div u
        r == n % u
    IN  IF 2 * r < u THEN q * u
        ELSE IF 2 * r > u THEN (q + 1) * u
        ELSE IF q % 2 = 0 THEN q * u ELSE (q + 1) * u

\* The Number value of the natural number n: n itself up to 2^53, the nearest
\* double above, Infinity (inf) from 2^1024 - 2^970 on. Values up to 2^31 - 1
\* are settled before any power is computed.
Double(n) ==
    IF n <= 2147483647 THEN [inf |-> FALSE, val |-> n]
    ELSE IF n >= 2^1024 - 2^970 THEN [inf |-> TRUE, val |-> 1]
    ELSE [inf |-> FALSE, val |-> RoundToDouble(n)]

\* Number.parseInt(s, 10): leading white space, an optional sign, then the
\* longest run of digits; NaN when there is no digit. The result is a double:
\* inf says it is Infinity or -Infinity, and val then holds its sign. A run of
\* more than 309 significant digits is beyond every finite double.
parseInt(s) ==
    LET t == SkipSpaces(s)
        signed == Len(t) > 0 /\ Head(t) \in {"+", "-"}
        neg == Len(t) > 0 /\ Head(t) = "-"
        ds == DigitPrefix(IF signed THEN Tail(t) ELSE t)
        sig == SkipZeros(ds)
        d == IF Len(sig) > 309 THEN [inf |-> TRUE, val |-> 1]
             ELSE Double(DecimalValue(sig))
    IN  IF Len(ds) = 0 THEN [nan |-> TRUE, inf |-> FALSE, val |-> 0]
        ELSE [nan |-> FALSE, inf |-> d.inf,
              val |-> IF neg THEN 0 - d.val ELSE d.val]

\* value * 1000 of a positive parsed number
TimesThousand(parsed) ==
    IF parsed.inf \/ Double(parsed.val * 1000).inf THEN Infinity
    ELSE Double(parsed.val * 1000).val

\* a + b of two numbers that are not negative
Plus(a, b) ==
    IF IsInfinity(a) \/ IsInfinity(b) \/ Double(a + b).inf THEN Infinity
    ELSE Double(a + b).val

\* new Date(value) is an invalid date: value is not finite, or it is more
\* than 8.64e15 ms away from the epoch. Values up to 2^31 - 1 are settled
\* before the power is computed.
InvalidDate(value) ==
    \/ IsInfinity(value)
    \/ value > 2147483647 /\ value > 864 * 10^13
    \/ value < 0 - 2147483647 /\ value < 0 - 864 * 10^13

LowerCase == <<"a","b","c","d","e","f","g","h","i","j","k","l","m",
               "n","o","p","q","r","s","t","u","v","w","x","y","z">>

UpperCase == <<"A","B","C","D","E","F","G","H","I","J","K","L","M",
               "N","O","P","Q","R","S","T","U","V","W","X","Y","Z">>

\* The upper case of the letters of U+0080..U+017F (Latin-1 Supplement and
\* Latin Extended-A) that have one; U+00DF and U+0149 become two characters
UpperCaseLatin ==
    ("U+00B5" :> <<"U+039C">>) @@ ("U+00DF" :> <<"S", "S">>) @@
    ("U+00E0" :> <<"U+00C0">>) @@ ("U+00E1" :> <<"U+00C1">>) @@
    ("U+00E2" :> <<"U+00C2">>) @@ ("U+00E3" :> <<"U+00C3">>) @@
    ("U+00E4" :> <<"U+00C4">>) @@ ("U+00E5" :> <<"U+00C5">>) @@
    ("U+00E6" :> <<"U+00C6">>) @@ ("U+00E7" :> <<"U+00C7">>) @@
    ("U+00E8" :> <<"U+00C8">>) @@ ("U+00E9" :> <<"U+00C9">>) @@
    ("U+00EA" :> <<"U+00CA">>) @@ ("U+00EB" :> <<"U+00CB">>) @@
    ("U+00EC" :> <<"U+00CC">>) @@ ("U+00ED" :> <<"U+00CD">>) @@
    ("U+00EE" :> <<"U+00CE">>) @@ ("U+00EF" :> <<"U+00CF">>) @@
    ("U+00F0" :> <<"U+00D0">>) @@ ("U+00F1" :> <<"U+00D1">>) @@
    ("U+00F2" :> <<"U+00D2">>) @@ ("U+00F3" :> <<"U+00D3">>) @@
    ("U+00F4" :> <<"U+00D4">>) @@ ("U+00F5" :> <<"U+00D5">>) @@
    ("U+00F6" :> <<"U+00D6">>) @@ ("U+00F8" :> <<"U+00D8">>) @@
    ("U+00F9" :> <<"U+00D9">>) @@ ("U+00FA" :> <<"U+00DA">>) @@
    ("U+00FB" :> <<"U+00DB">>) @@ ("U+00FC" :> <<"U+00DC">>) @@
    ("U+00FD" :> <<"U+00DD">>) @@ ("U+00FE" :> <<"U+00DE">>) @@
    ("U+00FF" :> <<"U+0178">>) @@ ("U+0101" :> <<"U+0100">>) @@
    ("U+0103" :> <<"U+0102">>) @@ ("U+0105" :> <<"U+0104">>) @@
    ("U+0107" :> <<"U+0106">>) @@ ("U+0109" :> <<"U+0108">>) @@
    ("U+010B" :> <<"U+010A">>) @@ ("U+010D" :> <<"U+010C">>) @@
    ("U+010F" :> <<"U+010E">>) @@ ("U+0111" :> <<"U+0110">>) @@
    ("U+0113" :> <<"U+0112">>) @@ ("U+0115" :> <<"U+0114">>) @@
    ("U+0117" :> <<"U+0116">>) @@ ("U+0119" :> <<"U+0118">>) @@
    ("U+011B" :> <<"U+011A">>) @@ ("U+011D" :> <<"U+011C">>) @@
    ("U+011F" :> <<"U+011E">>) @@ ("U+0121" :> <<"U+0120">>) @@
    ("U+0123" :> <<"U+0122">>) @@ ("U+0125" :> <<"U+0124">>) @@
    ("U+0127" :> <<"U+0126">>) @@ ("U+0129" :> <<"U+0128">>) @@
    ("U+012B" :> <<"U+012A">>) @@ ("U+012D" :> <<"U+012C">>) @@
    ("U+012F" :> <<"U+012E">>) @@ ("U+0131" :> <<"I">>) @@
    ("U+0133" :> <<"U+0132">>) @@ ("U+0135" :> <<"U+0134">>) @@
    ("U+0137" :> <<"U+0136">>) @@ ("U+013A" :> <<"U+0139">>) @@
    ("U+013C" :> <<"U+013B">>) @@ ("U+013E" :> <<"U+013D">>) @@
    ("U+0140" :> <<"U+013F">>) @@ ("U+0142" :> <<"U+0141">>) @@
    ("U+0144" :> <<"U+0143">>) @@ ("U+0146" :> <<"U+0145">>) @@
    ("U+0148" :> <<"U+0147">>) @@ ("U+0149" :> <<"U+02BC", "N">>) @@
    ("U+014B" :> <<"U+014A">>) @@ ("U+014D" :> <<"U+014C">>) @@
    ("U+014F" :> <<"U+014E">>) @@ ("U+0151" :> <<"U+0150">>) @@
    ("U+0153" :> <<"U+0152">>) @@ ("U+0155" :> <<"U+0154">>) @@
    ("U+0157" :> <<"U+0156">>) @@ ("U+0159" :> <<"U+0158">>) @@
    ("U+015B" :> <<"U+015A">>) @@ ("U+015D" :> <<"U+015C">>) @@
    ("U+015F" :> <<"U+015E">>) @@ ("U+0161" :> <<"U+0160">>) @@
    ("U+0163" :> <<"U+0162">>) @@ ("U+0165" :> <<"U+0164">>) @@
    ("U+0167" :> <<"U+0166">>) @@ ("U+0169" :> <<"U+0168">>) @@
    ("U+016B" :> <<"U+016A">>) @@ ("U+016D" :> <<"U+016C">>) @@
    ("U+016F" :> <<"U+016E">>) @@ ("U+0171" :> <<"U+0170">>) @@
    ("U+0173" :> <<"U+0172">>) @@ ("U+0175" :> <<"U+0174">>) @@
    ("U+0177" :> <<"U+0176">>) @@ ("U+017A" :> <<"U+0179">>) @@
    ("U+017C" :> <<"U+017B">>) @@ ("U+017E" :> <<"U+017D">>) @@
    ("U+017F" :> <<"S">>)

\* The upper case of one character, as a string
UpperCaseOf(c) ==
    IF \E j \in 1..26 : LowerCase[j] = c
    THEN <<UpperCase[CHOOSE j \in 1..26 : LowerCase[j] = c]>>
    ELSE IF c \in DOMAIN UpperCaseLatin THEN UpperCaseLatin[c]
    ELSE <<c>>

\* String.prototype.toUpperCase, on strings of ASCII and U+0080..U+017F
RECURSIVE toUpperCase(_)
toUpperCase(s) ==
    IF Len(s) = 0 THEN <<>>
    ELSE UpperCaseOf(Head(s)) \o toUpperCase(Tail(s))

-----------------------------------------------------------------------------
(* Program constants *)

STATE_KEY == "scheduler-state"

DEFAULT_DELAY_MS == 15 * 60 * 1000

retryWindowsMs == <<60000, 120000, 300000>>

HttpErrorPrefix ==
    <<"B","u","i","l","d"," ","w","e","b","h","o","o","k"," ",
      "r","e","s","p","o","n","d","e","d"," ","w","i","t","h"," ",
      "H","T","T","P"," ">>

NoWebhookUrlMessage ==
    <<"N","o"," ","w","e","b","h","o","o","k"," ","U","R","L"," ",
      "a","v","a","i","l","a","b","l","e"," ","f","o","r"," ",
      "e","x","e","c","u","t","i","o","n",".">>

NotConfiguredMessage ==
    <<"B","U","I","L","D","_","W","E","B","H","O","O","K","_","U","R","L"," ",
      "n","o","t"," ","c","o","n","f","i","g","u","r","e","d",".">>

-----------------------------------------------------------------------------
(* Inputs from the environment of the worker *)

\* HTTP statuses the target answers with
HttpStatuses == {200, 500}

\* Messages of the errors fetch() throws (network failure): one of 501 characters
NetworkErrors == {[i \in 1..501 |-> "e"]}

\* The outcomes of the trigger call: a response with a status, or an exception
FetchOutcomes ==
    {[kind |-> "response", status |-> s, message |-> <<>>] : s \in HttpStatuses}
    \cup {[kind |-> "throw", status |-> 0, message |-> m] : m \in NetworkErrors}

\* Environment bindings of the static variant
\* "https://ci.example/hook"
BuildWebhookUrl ==
    <<"h","t","t","p","s",":","/","/","c","i",".","e","x","a","m","p","l","e",
      "/","h","o","o","k">>

StaticEnvs ==
    { [BUILD_WEBHOOK_URL |-> BuildWebhookUrl,
       BUILD_DELAY_SECONDS |-> <<"6","0">>],
      [BUILD_WEBHOOK_URL |-> BuildWebhookUrl,
       BUILD_TRIGGER_METHOD |-> <<"g","e","t">>],
      [BUILD_DELAY_SECONDS |-> <<"3","0">>] }

\* Environment bindings of the dynamic variant
DynamicEnvs == { EmptyObject }

-----------------------------------------------------------------------------
(* Helpers of WebhookDelayDurableObject *)

\* getState(): the stored record, or { retryCount: 0 } when none is stored
getState == IF Has(storage, STATE_KEY) THEN storage[STATE_KEY] ELSE [retryCount |-> 0]

\* setState(state): the storage after ctx.storage.put(STATE_KEY, state)
setState(state) == SetProp(storage, STATE_KEY, state)

\* state.retryCount ?? 0
RetryCountOf(state) == IF Has(state, "retryCount") THEN state.retryCount ELSE 0

\* Mutant of getRetryDelayMs: the delay doubles with every retry
getRetryDelayMsDoubling(retryCount) ==
    IF retryCount = 1 THEN 60000
    ELSE IF retryCount = 2 THEN 120000
    ELSE IF retryCount = 3 THEN 240000
    ELSE 480000

getRetryDelayMs(retryCount) ==
    retryWindowsMs[Min(retryCount - 1, Len(retryWindowsMs) - 1) + 1]

\* Mutant of truncateError: the marker is appended to the first 500 characters
truncateErrorAppendsMarker(message) ==
    IF Len(message) > 500 THEN SubSeq(message, 1, 500) \o <<".", ".", ".">>
    ELSE message

\* message.length > 500 ? `${message.slice(0, 497)}...` : message
truncateError(message) ==
    IF Len(message) > 500 THEN SubSeq(message, 1, 497) \o <<".", ".", ".">>
    ELSE message

\* Mutant of resolveDelayMs: a parsed value that is not positive is used
resolveDelayMsAcceptsNonPositive ==
    IF ~TruthyChars(env, "BUILD_DELAY_SECONDS") THEN DEFAULT_DELAY_MS
    ELSE LET parsedSeconds == parseInt(env.BUILD_DELAY_SECONDS)
         IN  IF parsedSeconds.nan THEN DEFAULT_DELAY_MS
             ELSE TimesThousand(parsedSeconds)

resolveDelayMs ==
    IF ~TruthyChars(env, "BUILD_DELAY_SECONDS") THEN DEFAULT_DELAY_MS
    ELSE LET parsedSeconds == parseInt(env.BUILD_DELAY_SECONDS)
         IN  IF parsedSeconds.nan \/ parsedSeconds.val <= 0 THEN DEFAULT_DELAY_MS
             ELSE TimesThousand(parsedSeconds)

resolveTriggerMethod ==
    IF Has(env, "BUILD_TRIGGER_METHOD")
       /\ toUpperCase(env.BUILD_TRIGGER_METHOD) = <<"G","E","T">>
    THEN "GET" ELSE "POST"

\* The message of the error the try block of alarm() throws
ErrorMessage(outcome) ==
    IF outcome.kind = "response" THEN HttpErrorPrefix \o ToDecimal(outcome.status)
    ELSE outcome.message

\* response.ok
ResponseOk(outcome) ==
    outcome.kind = "response" /\ outcome.status >= 200 /\ outcome.status <= 299

\* The target of the trigger call: state.webhookUrl / this.env.BUILD_WEBHOOK_URL
HasTarget(state) ==
    IF mode = "dynamic" THEN TruthyChars(state, "webhookUrl")
    ELSE TruthyChars(env, "BUILD_WEBHOOK_URL")

TargetUrl(state) ==
    IF mode = "dynamic" THEN state.webhookUrl ELSE env.BUILD_WEBHOOK_URL

TriggerMethod == IF mode = "dynamic" THEN "POST" ELSE resolveTriggerMethod

ConfigErrorMessage ==
    IF mode = "dynamic" THEN NoWebhookUrlMessage ELSE NotConfiguredMessage

-----------------------------------------------------------------------------
(* The record each path of the handlers writes *)

\* Mutant of QueuedState: the new request clears lastError
QueuedStateClearsError(state, webhookUrl, delayMs) ==
    LET s1 == SetProp(state, "lastWebhookAt", now)
        s2 == SetProp(s1, "scheduledFor", Plus(now, delayMs))
        s3 == SetProp(s2, "retryCount", 0)
        s4 == SetProp(s3, "delayMs", delayMs)
        s5 == DelProp(s4, "lastError")
    IN  IF mode = "dynamic" THEN SetProp(s5, "webhookUrl", webhookUrl) ELSE s5

\* Mutant of QueuedState: retryCount is not reset
QueuedStateKeepsRetryCount(state, webhookUrl, delayMs) ==
    LET s1 == SetProp(state, "lastWebhookAt", now)
        s2 == SetProp(s1, "scheduledFor", Plus(now, delayMs))
        s4 == SetProp(s2, "delayMs", delayMs)
    IN  IF mode = "dynamic" THEN SetProp(s4, "webhookUrl", webhookUrl) ELSE s4

\* queueBuild: lines 53-57 (dynamic), 335-338 (static)
QueuedState(state, webhookUrl, delayMs) ==
    LET s1 == SetProp(state, "lastWebhookAt", now)
        s2 == SetProp(s1, "scheduledFor", Plus(now, delayMs))
        s3 == SetProp(s2, "retryCount", 0)
        s4 == SetProp(s3, "delayMs", delayMs)
    IN  IF mode = "dynamic" THEN SetProp(s4, "webhookUrl", webhookUrl) ELSE s4

\* alarm(), no target: lines 96-99 (dynamic), 374-377 (static)
NoTargetState(state) ==
    LET s1 == SetProp(state, "lastBuildAt", now)
        s2 == SetProp(s1, "lastBuildStatus", "error")
        s3 == SetProp(s2, "lastError", ConfigErrorMessage)
    IN  SetProp(s3, "retryCount", RetryCountOf(state) + 1)

\* Mutant of SuccessState: retryCount is not reset
SuccessStateKeepsRetryCount(state) ==
    LET s1 == SetProp(state, "lastBuildAt", now)
        s2 == SetProp(s1, "lastBuildStatus", "success")
        s3 == DelProp(s2, "lastError")
    IN  DelProp(s3, "scheduledFor")

\* Mutant of SuccessState: scheduledFor is not cleared
SuccessStateKeepsSchedule(state) ==
    LET s1 == SetProp(state, "lastBuildAt", now)
        s2 == SetProp(s1, "lastBuildStatus", "success")
        s3 == DelProp(s2, "lastError")
    IN  SetProp(s3, "retryCount", 0)

\* alarm(), the trigger call succeeded: lines 117-121
SuccessState(state) ==
    LET s1 == SetProp(state, "lastBuildAt", now)
        s2 == SetProp(s1, "lastBuildStatus", "success")
        s3 == DelProp(s2, "lastError")
        s4 == SetProp(s3, "retryCount", 0)
    IN  DelProp(s4, "scheduledFor")

\* alarm(), the catch block: lines 125-134
FailureState(state, message) ==
    LET retryCount == RetryCountOf(state) + 1
        nextAlarm == now + getRetryDelayMs(retryCount)
        s1 == SetProp(state, "lastBuildAt", now)
        s2 == SetProp(s1, "lastBuildStatus", "error")
        s3 == SetProp(s2, "lastError", truncateError(message))
        s4 == SetProp(s3, "retryCount", retryCount)
    IN  SetProp(s4, "scheduledFor", nextAlarm)

-----------------------------------------------------------------------------
(* getStatus() and the values it renders *)

\* o[k] as a value that may be undefined: the empty set is undefined
Prop(o, k) == IF Has(o, k) THEN {o[k]} ELSE {}

\* The object literal { ...o, k: value }; JSON.stringify and the structured
\* clone of the RPC leave out a property whose value is undefined
WithProp(o, k, value) ==
    IF value = {} THEN o ELSE SetProp(o, k, CHOOSE v \in value : TRUE)

\* n in decimal, padded with zeros to the width w
RECURSIVE padStart(_, _)
padStart(ds, w) == IF Len(ds) >= w THEN ds ELSE padStart(<<"0">> \o ds, w)

\* The civil date of a day counted from 1970-01-01 (proleptic Gregorian)
CivilFromDays(days) ==
    LET z == days + 719468
        era == z \div 146097
        doe == z - era * 146097
        yoe == (doe - (doe \div 1460) + (doe \div 36524) - (doe \div 146096)) \div 365
        doy == doe - (365 * yoe + (yoe \div 4) - (yoe \div 100))
        mp == (5 * doy + 2) \div 153
        d == doy - ((153 * mp + 2) \div 5) + 1
        m == IF mp < 10 THEN mp + 3 ELSE mp - 9
        y == yoe + era * 400 + (IF m <= 2 THEN 1 ELSE 0)
    IN  [year |-> y, month |-> m, day |-> d]

\* The RangeError ("Invalid time value") that toISOString throws, written as
\* one character where a string is expected
RangeError == <<"RangeError">>

\* The year of an ISO string: four digits, or "+" and six digits from the
\* year 10000 on
isoYear(year) ==
    IF year > 9999 THEN <<"+">> \o padStart(ToDecimal(year), 6)
    ELSE padStart(ToDecimal(year), 4)

\* new Date(value).toISOString() of a value that is not negative: the
\* RangeError when the date is invalid
toISOString(value) ==
    IF InvalidDate(value) THEN RangeError
    ELSE
    LET date == CivilFromDays(value \div 86400000)
        ms == value % 86400000
    IN  isoYear(date.year) \o <<"-">>
        \o padStart(ToDecimal(date.month), 2) \o <<"-">>
        \o padStart(ToDecimal(date.day), 2) \o <<"T">>
        \o padStart(ToDecimal(ms \div 3600000), 2) \o <<":">>
        \o padStart(ToDecimal((ms \div 60000) % 60), 2) \o <<":">>
        \o padStart(ToDecimal((ms \div 1000) % 60), 2) \o <<".">>
        \o padStart(ToDecimal(ms % 1000), 3) \o <<"Z">>

\* toIso(value): undefined for undefined and for 0; the RangeError when
\* toISOString throws it
toIso(value) == {toISOString(v) : v \in {x \in value : IsInfinity(x) \/ x # 0}}

\* The call rejects with the error: what its caller receives in place of a
\* result
Rejected(error) == [exception |-> error]

\* toIso throws for one of the timestamps getStatus() renders
toIsoThrows(state) ==
    \E k \in {"lastWebhookAt", "scheduledFor", "lastBuildAt"} :
        RangeError \in toIso(Prop(state, k))

\* Mutant of getStatus: delayMs reads state.delayMs ?? 0
getStatusDefaultsDelayMs ==
    LET state == getState
        s1 == WithProp(EmptyObject, "lastWebhookAt", toIso(Prop(state, "lastWebhookAt")))
        s2 == WithProp(s1, "scheduledFor", toIso(Prop(state, "scheduledFor")))
        s3 == WithProp(s2, "lastBuildAt", toIso(Prop(state, "lastBuildAt")))
        s4 == WithProp(s3, "lastBuildStatus", Prop(state, "lastBuildStatus"))
        s5 == WithProp(s4, "lastError", Prop(state, "lastError"))
        s6 == SetProp(s5, "retryCount", RetryCountOf(state))
        s7 == SetProp(s6, "delayMs", IF Has(state, "delayMs") THEN state.delayMs ELSE 0)
    IN  IF toIsoThrows(state) THEN Rejected(RangeError)
        ELSE IF mode = "dynamic"
        THEN WithProp(s7, "webhookUrl", Prop(state, "webhookUrl"))
        ELSE s7

\* getStatus(): the StatusResponse as the caller receives it, or the error
\* the call rejects with
getStatus ==
    LET state == getState
        s1 == WithProp(EmptyObject, "lastWebhookAt", toIso(Prop(state, "lastWebhookAt")))
        s2 == WithProp(s1, "scheduledFor", toIso(Prop(state, "scheduledFor")))
        s3 == WithProp(s2, "lastBuildAt", toIso(Prop(state, "lastBuildAt")))
        s4 == WithProp(s3, "lastBuildStatus", Prop(state, "lastBuildStatus"))
        s5 == WithProp(s4, "lastError", Prop(state, "lastError"))
        s6 == SetProp(s5, "retryCount", RetryCountOf(state))
        s7 == WithProp(s6, "delayMs", Prop(state, "delayMs"))
    IN  IF toIsoThrows(state) THEN Rejected(RangeError)
        ELSE IF mode = "dynamic"
        THEN WithProp(s7, "webhookUrl", Prop(state, "webhookUrl"))
        ELSE s7

-----------------------------------------------------------------------------
(* Initial state: a fresh Durable Object, nothing stored, no alarm armed *)

\* Nothing stored, no alarm armed, no handler running
Fresh ==
    /\ storage = EmptyObject
    /\ alarm = {}
    /\ now = StartTime
    /\ pc = "idle"
    /\ local = EmptyObject
    /\ lastReq = EmptyObject
    /\ nReq = 0
    /\ burst = 0
    /\ calls = 0
    /\ lastCall = EmptyObject
    /\ lastOp = "none"
    /\ ticks = 0
    /\ streak = 0
    /\ resp = EmptyObject
    /\ qpc = EmptyObject
    /\ errOut = <<>>
    /\ nFetch = 0
    /\ inFlight = EmptyObject

Init ==
    /\ mode \in {"dynamic", "static"}
    /\ env \in (IF mode = "dynamic" THEN DynamicEnvs ELSE StaticEnvs)
    /\ errIn = <<>>
    /\ Fresh

-----------------------------------------------------------------------------
(* Actions *)

\* Time passes: TickMs elapse
Tick ==
    /\ ticks < MaxTicks
    /\ now + TickMs <= StartTime + MaxElapsedMs
    /\ now' = now + TickMs
    /\ ticks' = ticks + 1
    /\ UNCHANGED <<mode, env, storage, alarm, pc, local, hist>>
    /\ UNCHANGED aux

\* Time passes: the time the alarm is armed for is reached
WaitUntil(horizon) ==
    /\ \E t \in alarm : ~IsInfinity(t) /\ t > now /\ t <= horizon /\ now' = t
    /\ UNCHANGED <<mode, env, storage, alarm, pc, local, hist, ticks>>
    /\ UNCHANGED aux

WaitForAlarm == WaitUntil(StartTime + MaxElapsedMs)

\* Mutant of Queue: the alarm is armed only when none is armed yet
QueueKeepsEarlierAlarm(webhookUrl, delayMs) ==
    /\ nReq < MaxRequests
    /\ storage' = setState(QueuedState(getState, webhookUrl, delayMs))
    /\ alarm' = IF alarm = {} THEN {Plus(now, delayMs)} ELSE alarm
    /\ lastReq' = [at |-> now, delayMs |-> delayMs, scheduledFor |-> Plus(now, delayMs),
                   retryCountBefore |-> RetryCountOf(getState)]
    /\ nReq' = nReq + 1
    /\ burst' = IF pc = "idle" THEN burst + 1 ELSE 0
    /\ calls' = 0
    /\ lastOp' = "queue"
    /\ UNCHANGED <<mode, env, now, pc, local, lastCall, ticks>>
    /\ streak' = 0
    /\ UNCHANGED aux

\* The common part of queueBuild: put the record, then setAlarm(scheduledFor).
\* The call may arrive while alarm() is suspended in fetch().
QueueEffect(webhookUrl, delayMs) ==
    /\ nReq < MaxRequests
    /\ storage' = setState(QueuedState(getState, webhookUrl, delayMs))
    /\ alarm' = {Plus(now, delayMs)}
    /\ lastReq' = [at |-> now, delayMs |-> delayMs, scheduledFor |-> Plus(now, delayMs),
                   retryCountBefore |-> RetryCountOf(getState)]
    /\ nReq' = nReq + 1
    /\ burst' = IF pc = "idle" THEN burst + 1 ELSE 0
    /\ calls' = 0
    /\ lastOp' = "queue"
    /\ UNCHANGED <<mode, env, now, pc, local, lastCall, ticks>>
    /\ streak' = 0

\* queueBuild called on the stub of the Durable Object
Queue(webhookUrl, delayMs) ==
    /\ QueueEffect(webhookUrl, delayMs)
    /\ UNCHANGED aux

\* queueBuild(webhookUrl, delaySeconds) of the dynamic variant;
\* Math.round(delaySeconds * 1000) of an integer is delaySeconds * 1000
queueBuild(webhookUrl, delaySeconds) ==
    /\ mode = "dynamic"
    /\ Queue(webhookUrl, delaySeconds * 1000)

\* queueBuild() of the static variant
queueBuildStatic ==
    /\ mode = "static"
    /\ Queue(<<>>, resolveDelayMs)

\* The alarm is due and alarm() is not running: the runtime consumes the alarm
\* and runs alarm()
AlarmDue == pc = "idle" /\ \E t \in alarm : ~IsInfinity(t) /\ t <= now

\* alarm(): scheduledFor is unset, return
alarmStale ==
    /\ AlarmDue
    /\ ~TruthyNum(getState, "scheduledFor")
    /\ alarm' = {}
    /\ burst' = 0
    /\ lastOp' = "alarm_stale"
    /\ UNCHANGED <<mode, env, storage, now, pc, local, lastReq, nReq, calls, lastCall, ticks>>
    /\ UNCHANGED streak
    /\ UNCHANGED aux

\* Mutant of alarmNoTarget: the configuration error is retried like a failed call
alarmNoTargetRetries ==
    /\ pc = "idle" /\ \E t \in alarm : ~IsInfinity(t) /\ t <= now
    /\ TruthyNum(getState, "scheduledFor")
    /\ ~HasTarget(getState)
    /\ storage' = setState(NoTargetState(getState))
    /\ alarm' = {now + getRetryDelayMs(RetryCountOf(getState) + 1)}
    /\ burst' = 0
    /\ lastOp' = "alarm_no_target"
    /\ UNCHANGED <<mode, env, now, pc, local, lastReq, nReq, calls, lastCall, ticks>>
    /\ streak' = streak + 1
    /\ UNCHANGED aux

\* alarm(): no target, record the failure and return without arming an alarm
alarmNoTarget ==
    /\ AlarmDue
    /\ TruthyNum(getState, "scheduledFor")
    /\ ~HasTarget(getState)
    /\ storage' = setState(NoTargetState(getState))
    /\ alarm' = {}
    /\ burst' = 0
    /\ lastOp' = "alarm_no_target"
    /\ UNCHANGED <<mode, env, now, pc, local, lastReq, nReq, calls, lastCall, ticks>>
    /\ streak' = streak + 1
    /\ UNCHANGED aux

\* Mutant of alarmFetch: the scheduledFor guard is missing
alarmFetchUnguarded ==
    /\ pc = "idle" /\ \E t \in alarm : ~IsInfinity(t) /\ t <= now
    /\ HasTarget(getState)
    /\ alarm' = {}
    /\ pc' = "fetching"
    /\ local' = getState
    /\ burst' = 0
    /\ calls' = calls + 1
    /\ lastCall' = [at |-> now, url |-> TargetUrl(getState), method |-> TriggerMethod,
                    req |-> lastReq, burst |-> burst]
    /\ lastOp' = "alarm_fetch"
    /\ UNCHANGED <<mode, env, storage, now, lastReq, nReq, ticks>>
    /\ UNCHANGED streak
    /\ UNCHANGED aux

\* Mutant of alarmFetch: after three failures alarm() returns without a call
alarmFetchCapped ==
    /\ pc = "idle" /\ \E t \in alarm : ~IsInfinity(t) /\ t <= now
    /\ TruthyNum(getState, "scheduledFor")
    /\ HasTarget(getState)
    /\ alarm' = {}
    /\ burst' = 0
    /\ IF RetryCountOf(getState) >= 3
       THEN /\ lastOp' = "alarm_stale"
            /\ UNCHANGED <<pc, local, calls, lastCall>>
       ELSE /\ pc' = "fetching"
            /\ local' = getState
            /\ calls' = calls + 1
            /\ lastCall' = [at |-> now, url |-> TargetUrl(getState),
                            method |-> TriggerMethod, req |-> lastReq, burst |-> burst]
            /\ lastOp' = "alarm_fetch"
    /\ UNCHANGED <<mode, env, storage, now, lastReq, nReq, ticks>>
    /\ UNCHANGED streak
    /\ UNCHANGED aux

\* alarm(): start the trigger call and suspend in fetch()
alarmFetch ==
    /\ AlarmDue
    /\ TruthyNum(getState, "scheduledFor")
    /\ HasTarget(getState)
    /\ alarm' = {}
    /\ pc' = "fetching"
    /\ local' = getState
    /\ burst' = 0
    /\ calls' = calls + 1
    /\ lastCall' = [at |-> now, url |-> TargetUrl(getState), method |-> TriggerMethod,
                    req |-> lastReq, burst |-> burst]
    /\ lastOp' = "alarm_fetch"
    /\ UNCHANGED <<mode, env, storage, now, lastReq, nReq, ticks>>
    /\ UNCHANGED streak
    /\ UNCHANGED aux

\* alarm(): fetch() returned a response with a success status
alarmSuccess(outcome) ==
    /\ pc = "fetching"
    /\ ResponseOk(outcome)
    /\ storage' = setState(SuccessState(local))
    /\ pc' = "idle"
    /\ local' = EmptyObject
    /\ burst' = 0
    /\ lastOp' = "alarm_success"
    /\ UNCHANGED <<mode, env, alarm, now, lastReq, nReq, calls, lastCall, ticks>>
    /\ streak' = 0
    /\ UNCHANGED aux

\* Mutant of alarmCatch: after the third retry has failed no alarm is armed
alarmCatchGivesUp(outcome) ==
    /\ pc = "fetching"
    /\ ~ResponseOk(outcome)
    /\ storage' = setState(FailureState(local, ErrorMessage(outcome)))
    /\ alarm' = IF RetryCountOf(local) + 1 > 3 THEN alarm
                ELSE {now + getRetryDelayMs(RetryCountOf(local) + 1)}
    /\ pc' = "idle"
    /\ local' = EmptyObject
    /\ burst' = 0
    /\ lastOp' = "alarm_failure"
    /\ UNCHANGED <<mode, env, now, lastReq, nReq, calls, lastCall, ticks>>
    /\ streak' = streak + 1
    /\ UNCHANGED aux

\* alarm(): fetch() threw or returned a non-success status: the catch block
alarmCatch(outcome) ==
    /\ pc = "fetching"
    /\ ~ResponseOk(outcome)
    /\ storage' = setState(FailureState(local, ErrorMessage(outcome)))
    /\ alarm' = {now + getRetryDelayMs(RetryCountOf(local) + 1)}
    /\ pc' = "idle"
    /\ local' = EmptyObject
    /\ burst' = 0
    /\ lastOp' = "alarm_failure"
    /\ UNCHANGED <<mode, env, now, lastReq, nReq, calls, lastCall, ticks>>
    /\ streak' = streak + 1
    /\ UNCHANGED aux

Next ==
    \/ Tick
    \/ WaitForAlarm
    \/ \E u \in WebhookUrlInputs, d \in DelaySecondsInputs : queueBuild(u, d)
    \/ queueBuildStatic
    \/ alarmStale
    \/ alarmNoTarget
    \/ alarmFetch
    \/ \E o \in FetchOutcomes : alarmSuccess(o)
    \/ \E o \in FetchOutcomes : alarmCatch(o)

Spec == Init /\ [][Next]_vars

\* alarm() runs: one of its three paths up to the return or the fetch()
alarmRun == alarmStale \/ alarmNoTarget \/ alarmFetch

\* alarm() resumes when fetch() settles
alarmResume == \E o \in FetchOutcomes : alarmSuccess(o) \/ alarmCatch(o)

\* The alarm is delivered at least once and not before its time; fetch() settles
FairSpec ==
    /\ Spec
    /\ WF_vars(WaitForAlarm)
    /\ WF_vars(alarmRun)
    /\ WF_vars(alarmResume)

-----------------------------------------------------------------------------
(* The worker's fetch(): routing, authorization, validation, delegation *)

IsAlpha(c) == \E j \in 1..26 : LowerCase[j] = c \/ UpperCase[j] = c

toLowerCase(s) ==
    [i \in 1..Len(s) |->
        IF \E j \in 1..26 : UpperCase[j] = s[i]
        THEN LowerCase[CHOOSE j \in 1..26 : UpperCase[j] = s[i]]
        ELSE s[i]]

\* The first position of c in s at or after i, 0 when there is none
IndexFrom(s, c, i) ==
    IF \E j \in i..Len(s) : s[j] = c
    THEN CHOOSE j \in i..Len(s) : s[j] = c /\ \A k \in i..(j - 1) : s[k] # c
    ELSE 0

\* s.indexOf(c) + 1: the first position of c in s, 0 when there is none
IndexOf(s, c) == IndexFrom(s, c, 1)

RECURSIVE SkipSlashes(_)
SkipSlashes(s) ==
    IF Len(s) > 0 /\ Head(s) = "/" THEN SkipSlashes(Tail(s)) ELSE s

\* The special schemes: "http", "https", "ftp", "ws", "wss", "file"
SpecialSchemes ==
    { <<"h","t","t","p">>, <<"h","t","t","p","s">>, <<"f","t","p">>,
      <<"w","s">>, <<"w","s","s">>, <<"f","i","l","e">> }

\* The port a special scheme leaves out of its URLs, as digits
DefaultPort(scheme) ==
    IF scheme \in { <<"h","t","t","p">>, <<"w","s">> } THEN <<"8","0">>
    ELSE IF scheme \in { <<"h","t","t","p","s">>, <<"w","s","s">> } THEN <<"4","4","3">>
    ELSE IF scheme = <<"f","t","p">> THEN <<"2","1">>
    ELSE <<>>

\* The C0 controls, U+0000 to U+001F, and the space
C0ControlOrSpace ==
    {" ", "\t", "\n", "\f", "\r",
     "U+0000", "U+0001", "U+0002", "U+0003", "U+0004", "U+0005", "U+0006",
     "U+0007", "U+0008", "U+000B", "U+000E", "U+000F", "U+0010", "U+0011",
     "U+0012", "U+0013", "U+0014", "U+0015", "U+0016", "U+0017", "U+0018",
     "U+0019", "U+001A", "U+001B", "U+001C", "U+001D", "U+001E", "U+001F"}

\* The characters that are stripped from both ends of the input
IsControlOrSpace(c) == c \in C0ControlOrSpace

\* The tab and the newlines, which are removed wherever they stand
NotTabOrNewline(c) == c \notin {"\t", "\n", "\r"}

RECURSIVE TrimStart(_)
TrimStart(s) ==
    IF Len(s) > 0 /\ IsControlOrSpace(Head(s)) THEN TrimStart(Tail(s)) ELSE s

RECURSIVE TrimEnd(_)
TrimEnd(s) ==
    IF Len(s) > 0 /\ IsControlOrSpace(s[Len(s)])
    THEN TrimEnd(SubSeq(s, 1, Len(s) - 1)) ELSE s

Trim(s) == TrimEnd(TrimStart(s))

\* The segments of s between its slashes; one empty segment for the empty s
RECURSIVE Split(_)
Split(s) ==
    LET slash == IndexOf(s, "/")
    IN  IF slash = 0 THEN <<s>>
        ELSE <<SubSeq(s, 1, slash - 1)>> \o Split(SubSeq(s, slash + 1, Len(s)))

\* A path segment percent-encoded: of the characters of the inputs, the space
RECURSIVE percentEncode(_)
percentEncode(segment) ==
    IF Len(segment) = 0 THEN <<>>
    ELSE (IF Head(segment) = " " THEN <<"%", "2", "0">> ELSE <<Head(segment)>>)
         \o percentEncode(Tail(segment))

\* The path of a URL in its href: every segment after a slash
RECURSIVE serializePath(_)
serializePath(path) ==
    IF Len(path) = 0 THEN <<>>
    ELSE <<"/">> \o Head(path) \o serializePath(Tail(path))

\* The first position in s of a slash that a dot follows, 0 when there is none
SlashDot(s) ==
    IF \E j \in 1..(Len(s) - 1) : s[j] = "/" /\ s[j + 1] = "."
    THEN CHOOSE j \in 1..(Len(s) - 1) :
             /\ s[j] = "/" /\ s[j + 1] = "."
             /\ \A k \in 1..(j - 1) : ~(s[k] = "/" /\ s[k + 1] = ".")
    ELSE 0

\* The runtime's shortcut (ada, the URL parser of node and workerd): the text
\* after the first slash is taken as the path as it stands when it has no dot
\* and no space, and also when it has dots and no space, does not begin with
\* a dot, and its first "/." is not the start of a "/./", a "/.." or a final
\* "/.": a dot segment that comes after such a segment is then kept.
isTrivialPath(input) ==
    IF \E i \in 1..Len(input) : input[i] = " " THEN FALSE
    ELSE IF \A i \in 1..Len(input) : input[i] # "." THEN TRUE
    ELSE IF input[1] = "." THEN FALSE
    ELSE LET slashdot == SlashDot(input)
         IN  \/ slashdot = 0
             \/ /\ slashdot + 2 <= Len(input)
                /\ input[slashdot + 2] \notin {".", "/"}

\* The path state: ".." removes the last segment of the path and "." adds
\* none; "." at the end of the input leaves an empty segment, and so does
\* ".." there in a special URL, or when it has removed a segment
RECURSIVE parsePath(_, _, _)
parsePath(segments, path, special) ==
    IF Len(segments) = 0 THEN path
    ELSE LET buffer == Head(segments)
             last == Len(segments) = 1
             shortened == IF Len(path) > 0 THEN SubSeq(path, 1, Len(path) - 1) ELSE path
         IN  IF buffer = <<".", ".">>
             THEN parsePath(Tail(segments),
                            IF last /\ (Len(path) > 0 \/ special)
                            THEN Append(shortened, <<>>) ELSE shortened,
                            special)
             ELSE IF buffer = <<".">>
             THEN parsePath(Tail(segments),
                            IF last THEN Append(path, <<>>) ELSE path, special)
             ELSE parsePath(Tail(segments), Append(path, percentEncode(buffer)),
                            special)

\* The pathname of the text after the first slash of the path
preparedPath(input, special) ==
    IF isTrivialPath(input) THEN <<"/">> \o input
    ELSE serializePath(parsePath(Split(input), <<>>, special))

\* The URL constructor throws
Failure == [ok |-> FALSE, protocol |-> <<>>, href |-> <<>>]

\* The URL of a scheme and of the text of its href after "scheme:"
Parsed(scheme, afterScheme) ==
    [ok |-> TRUE, protocol |-> scheme \o <<":">>,
     href |-> scheme \o <<":">> \o afterScheme]

\* The host and port states on the text between "//" and the next slash: the
\* host ends at the first colon and has no forbidden code point (of the
\* characters of the inputs, the space and the colon); it is required before
\* a port and in a special URL, where it is lowercased; the port is digits,
\* at most 65535, and is left out when empty or the default of the scheme.
parseAuthority(scheme, authority) ==
    LET colon == IndexOf(authority, ":")
        buffer == IF colon = 0 THEN authority ELSE SubSeq(authority, 1, colon - 1)
        digits == IF colon = 0 THEN <<>> ELSE SubSeq(authority, colon + 1, Len(authority))
        port == SkipZeros(digits)
        special == scheme \in SpecialSchemes
        hostOk ==
            /\ Len(buffer) > 0 \/ (colon = 0 /\ ~special)
            /\ \A i \in 1..Len(buffer) : buffer[i] # " "
        portOk ==
            /\ \A i \in 1..Len(digits) : IsDigit(digits[i])
            /\ Len(port) <= 5
            /\ DecimalValue(port) <= 65535
    IN  IF ~(hostOk /\ portOk) THEN [ok |-> FALSE, host |-> <<>>]
        ELSE [ok |-> TRUE,
              host |-> (IF special THEN toLowerCase(buffer) ELSE buffer)
                       \o (IF Len(port) = 0 \/ port = DefaultPort(scheme) THEN <<>>
                           ELSE <<":">> \o port)]

\* A URL of a special scheme other than "file": every slash before the host
\* is skipped, and the path is "/" when none is given
parseSpecial(scheme, rest) ==
    LET afterSlashes == SkipSlashes(rest)
        slash == IndexOf(afterSlashes, "/")
        authority == IF slash = 0 THEN afterSlashes
                     ELSE SubSeq(afterSlashes, 1, slash - 1)
        remaining == IF slash = 0 THEN <<>>
                     ELSE SubSeq(afterSlashes, slash + 1, Len(afterSlashes))
        parsed == parseAuthority(scheme, authority)
    IN  IF ~parsed.ok THEN Failure
        ELSE Parsed(scheme, <<"/", "/">> \o parsed.host
                            \o preparedPath(remaining, TRUE))

\* A "file" URL: a host only after "//", with no port, "localhost" left out;
\* without "//" the text after at most one slash is the path
parseFile(scheme, rest) ==
    LET hasHost == Len(rest) > 1 /\ rest[1] = "/" /\ rest[2] = "/"
        afterSlashes == IF hasHost THEN SubSeq(rest, 3, Len(rest))
                        ELSE IF Len(rest) > 0 /\ rest[1] = "/" THEN Tail(rest)
                        ELSE rest
        slash == IndexOf(afterSlashes, "/")
        buffer == IF ~hasHost THEN <<>>
                  ELSE IF slash = 0 THEN afterSlashes
                  ELSE SubSeq(afterSlashes, 1, slash - 1)
        remaining == IF ~hasHost THEN afterSlashes
                     ELSE IF slash = 0 THEN <<>>
                     ELSE SubSeq(afterSlashes, slash + 1, Len(afterSlashes))
        host == IF toLowerCase(buffer) = <<"l","o","c","a","l","h","o","s","t">>
                THEN <<>> ELSE toLowerCase(buffer)
    IN  IF \E i \in 1..Len(buffer) : buffer[i] \in {" ", ":"} THEN Failure
        ELSE Parsed(scheme, <<"/", "/">> \o host
                            \o preparedPath(remaining, TRUE))

\* A URL of any other scheme: a host after "//", kept as written, and the path
\* that follows it, if any; a path after one slash; or else an opaque path,
\* which is kept as written
parseNonSpecial(scheme, rest) ==
    LET hasHost == Len(rest) > 1 /\ rest[1] = "/" /\ rest[2] = "/"
        afterSlashes == SubSeq(rest, 3, Len(rest))
        slash == IndexOf(afterSlashes, "/")
        authority == IF slash = 0 THEN afterSlashes
                     ELSE SubSeq(afterSlashes, 1, slash - 1)
        parsed == parseAuthority(scheme, authority)
        hostPath == IF slash = 0 THEN <<>>
                    ELSE preparedPath(SubSeq(afterSlashes, slash + 1,
                                             Len(afterSlashes)), FALSE)
        path == preparedPath(Tail(rest), FALSE)
    IN  IF hasHost
        THEN IF ~parsed.ok THEN Failure
             ELSE Parsed(scheme, <<"/", "/">> \o parsed.host \o hostPath)
        ELSE IF Len(rest) > 0 /\ rest[1] = "/"
        THEN Parsed(scheme, (IF Len(path) > 1 /\ path[1] = "/" /\ path[2] = "/"
                             THEN <<"/", ".">> ELSE <<>>) \o path)
        ELSE Parsed(scheme, rest)

\* new URL(input) without a base: ok is FALSE when the constructor throws.
\* The inputs are strings of ASCII letters, digits, + - . : / and spaces,
\* with C0 controls at their ends and tabs and newlines anywhere, which are
\* removed, hence without credentials, query, fragment, backslash, percent escape or
\* IPv6 address, and further without a host whose last label is a number (an
\* IPv4 address), without a host label that begins with "xn--" in any case
\* (Punycode, whose validity rests on the Unicode tables) and without a
\* Windows drive letter in a "file" URL. The scheme is the text before the
\* first colon, lowercased.
parseUrl(input) ==
    LET url == SelectSeq(Trim(input), NotTabOrNewline)
        colon == IndexOf(url, ":")
        schemeOk ==
            /\ colon > 1
            /\ IsAlpha(url[1])
            /\ \A i \in 2..(colon - 1) :
                   IsAlpha(url[i]) \/ IsDigit(url[i]) \/ url[i] \in {"+", "-", "."}
        scheme == toLowerCase(SubSeq(url, 1, colon - 1))
        rest == SubSeq(url, colon + 1, Len(url))
    IN  IF ~schemeOk THEN Failure
        ELSE IF scheme = <<"f","i","l","e">> THEN parseFile(scheme, rest)
        ELSE IF scheme \in SpecialSchemes THEN parseSpecial(scheme, rest)
        ELSE parseNonSpecial(scheme, rest)

\* The last position of c in s, 0 when there is none
LastIndexOf(s, c) ==
    IF \E j \in 1..Len(s) : s[j] = c
    THEN CHOOSE j \in 1..Len(s) : s[j] = c /\ \A k \in (j + 1)..Len(s) : s[k] # c
    ELSE 0

\* The text the host of url is parsed from: what follows the first colon
\* and the slashes after it, up to the next slash or colon
hostText(url) ==
    LET afterSlashes == SkipSlashes(SubSeq(url, IndexOf(url, ":") + 1, Len(url)))
        slash == IndexOf(afterSlashes, "/")
        authority == IF slash = 0 THEN afterSlashes
                     ELSE SubSeq(afterSlashes, 1, slash - 1)
        colon == IndexOf(authority, ":")
    IN  IF colon = 0 THEN authority ELSE SubSeq(authority, 1, colon - 1)

\* The last label of a host, before its final dot if it ends in one
lastLabel(host) ==
    LET name == IF Len(host) > 0 /\ host[Len(host)] = "."
                THEN SubSeq(host, 1, Len(host) - 1) ELSE host
    IN  SubSeq(name, LastIndexOf(name, ".") + 1, Len(name))

\* input is one of the inputs parseUrl is written for. A string is left out
\* when it has a character other than ASCII letters, digits, + - . : / and
\* the C0 controls and the space, or a C0 control other than tab and newline
\* inside it; when it has "xn--" in any case; when the last label of its
\* host begins with a digit (every number does); and when it is a "file"
\* URL with another colon (every drive letter has one)
IsUrlInput(input) ==
    LET trimmed == Trim(input)
        url == SelectSeq(trimmed, NotTabOrNewline)
        colon == IndexOf(url, ":")
        label == lastLabel(hostText(url))
    IN  /\ \A i \in 1..Len(input) :
              \/ IsAlpha(input[i]) \/ IsDigit(input[i])
              \/ input[i] \in {"+", "-", ".", ":", "/"}
              \/ IsControlOrSpace(input[i])
        /\ \A i \in 1..Len(trimmed) :
              IsControlOrSpace(trimmed[i]) => trimmed[i] \in {" ", "\t", "\n", "\r"}
        /\ \A i \in 1..(Len(url) - 3) :
              ~ /\ url[i] \in {"x", "X"} /\ url[i + 1] \in {"n", "N"}
                /\ url[i + 2] = "-" /\ url[i + 3] = "-"
        /\ colon > 0 => ~(Len(label) > 0 /\ IsDigit(label[1]))
        /\ toLowerCase(SubSeq(url, 1, colon - 1)) = <<"f","i","l","e">> =>
              IndexFrom(url, ":", colon + 1) = 0

\* input as an input of parseUrl; no value when it is none
UrlInput(input) == CHOOSE url \in {input} : IsUrlInput(url)

\* Math.round(delayMs / 1000) of a non-negative delayMs
RoundSeconds(delayMs) == (delayMs + 500) \div 1000

\* request.headers.get("x-webhook-secret") ?? url.searchParams.get("secret")
providedSecret(request) ==
    IF Has(request.headers, "x-webhook-secret")
    THEN Prop(request.headers, "x-webhook-secret")
    ELSE Prop(request.searchParams, "secret")

\* Mutant of Unauthorized: a request that provides no secret is let through
UnauthorizedOnlyWhenProvided(request) ==
    /\ TruthyStr(env, "WEBHOOK_SECRET")
    /\ providedSecret(request) # {}
    /\ providedSecret(request) # {env.WEBHOOK_SECRET}

\* The secret check fails: a secret is configured and the provided one differs
Unauthorized(request) ==
    TruthyStr(env, "WEBHOOK_SECRET") /\ providedSecret(request) # {env.WEBHOOK_SECRET}

\* A response that has nothing stored by the Durable Object; awaits tells
\* whether the worker awaits a call into the object before it answers
Reply(status, body) ==
    [status |-> status, body |-> body, queue |-> FALSE,
     webhookUrl |-> <<>>, delayMs |-> 0, awaits |-> FALSE]

\* The 200 response, after getStatus has returned the status
Status(body) == [Reply(200, body) EXCEPT !.awaits = TRUE]

\* The call into the Durable Object that the worker awaits has rejected:
\* fetch() has no handler for the error and rejects with it, and the runtime
\* answers the request with a 500
Thrown(error) == [Reply(500, Rejected(error)) EXCEPT !.awaits = TRUE]

\* The outcome of the request that is delegated to queueBuild. queueBuild
\* puts the record and sets the alarm, and then logs the ISO string of
\* scheduledFor: with an invalid date it rejects with the RangeError after
\* both writes; otherwise it returns the record and the worker answers 202
Accepted(webhookUrl, delayMs) ==
    LET result == QueuedState(getState, webhookUrl, delayMs)
        b1 == [ok |-> TRUE, scheduledFor |-> toISOString(result.scheduledFor),
               delaySeconds |-> RoundSeconds(result.delayMs)]
    IN  IF InvalidDate(result.scheduledFor)
        THEN [Thrown(RangeError) EXCEPT
                 !.queue = TRUE, !.webhookUrl = webhookUrl, !.delayMs = delayMs]
        ELSE [status |-> 202,
              body |-> IF mode = "dynamic" THEN SetProp(b1, "webhookUrl", webhookUrl)
                       ELSE b1,
              queue |-> TRUE, webhookUrl |-> webhookUrl, delayMs |-> delayMs,
              awaits |-> TRUE]

\* The validation of the headers of the dynamic variant, and the delegation.
\* It is defined for the requests whose x-webhook-url is one of the inputs
\* of parseUrl (UrlInput)
validateAndQueue(request) ==
    LET parsedWebhookUrl == parseUrl(UrlInput(request.headers["x-webhook-url"]))
        delaySeconds == parseInt(request.headers["x-delay-seconds"])
    IN  IF ~TruthyChars(request.headers, "x-webhook-url")
        THEN Reply(400, "Missing x-webhook-url header")
        ELSE IF ~parsedWebhookUrl.ok
        THEN Reply(400, "Invalid x-webhook-url header")
        ELSE IF parsedWebhookUrl.protocol \notin
                    { <<"h","t","t","p",":">>, <<"h","t","t","p","s",":">> }
        THEN Reply(400, "Unsupported webhook protocol")
        ELSE IF ~TruthyChars(request.headers, "x-delay-seconds")
        THEN Reply(400, "Missing x-delay-seconds header")
        ELSE IF delaySeconds.nan \/ delaySeconds.inf \/ delaySeconds.val <= 0
        THEN Reply(400, "Invalid x-delay-seconds header")
        ELSE Accepted(parsedWebhookUrl.href, TimesThousand(delaySeconds))

\* fetch(request, env, ctx): the response, and what is delegated to queueBuild
route(request) ==
    IF request.method = "OPTIONS" THEN Reply(204, "")
    ELSE IF request.method = "GET" /\ request.pathname = "/status"
    THEN IF Has(getStatus, "exception") THEN Thrown(getStatus.exception)
         ELSE Status(getStatus)
    ELSE IF request.method # "POST" THEN Reply(404, "Not Found")
    ELSE IF Unauthorized(request) THEN Reply(401, "Unauthorized")
    ELSE IF mode = "static" THEN Accepted(<<>>, resolveDelayMs)
    ELSE validateAndQueue(request)

\* The responses in flight are counted: awaiting[response] of them are equal
\* to response. One more of them:
Sent(awaiting, response) ==
    IF response \in DOMAIN awaiting
    THEN [awaiting EXCEPT ![response] = @ + 1]
    ELSE SetProp(awaiting, response, 1)

\* One of them fewer
Delivered(awaiting, response) ==
    IF awaiting[response] > 1
    THEN [awaiting EXCEPT ![response] = @ - 1]
    ELSE DelProp(awaiting, response)

\* Their number
RECURSIVE InFlight(_)
InFlight(awaiting) ==
    IF DOMAIN awaiting = {} THEN 0
    ELSE LET response == CHOOSE r \in DOMAIN awaiting : TRUE
         IN  awaiting[response] + InFlight(DelProp(awaiting, response))

\* What the handler does with the outcome r of its routing: it answers at
\* once, or it has the Durable Object run the call and awaits its return
Serve(r, response) ==
    /\ IF r.awaits
       THEN /\ inFlight' = Sent(inFlight, response)
            /\ UNCHANGED <<resp, nFetch>>
       ELSE /\ resp' = response
            /\ nFetch' = nFetch + 1
            /\ UNCHANGED inFlight
    /\ IF r.queue THEN QueueEffect(r.webhookUrl, r.delayMs)
       ELSE UNCHANGED <<mode, env, storage, alarm, now, pc, local, hist, ticks>>

\* The Response the worker builds from the outcome of its routing
Response(r) == [status |-> r.status, body |-> r.body]

\* Serve the outcome of the routing with the response it stands for
Handle(r) == Serve(r, Response(r))

\* One request handled by the worker, up to its response or, when the worker
\* calls into the Durable Object, up to the end of that call in the object:
\* the worker awaits the call (stub.getStatus(), stub.queueBuild()) and builds
\* its response from the result when it resumes
Fetch(request) ==
    /\ nFetch + InFlight(inFlight) < MaxFetches
    /\ Handle(route(request))
    /\ UNCHANGED <<qpc, errIn, errOut>>

\* The worker resumes after a call into the Durable Object and answers; the
\* requests in flight are answered in any order, and after any other step
FetchReturn ==
    /\ \E response \in DOMAIN inFlight :
          /\ resp' = response
          /\ inFlight' = Delivered(inFlight, response)
    /\ nFetch' = nFetch + 1
    /\ UNCHANGED <<mode, env, storage, alarm, now, pc, local, hist, ticks,
                   qpc, errIn, errOut>>

\* The secret the deployment is configured with, and a different one
Secret == "s3cret"
WrongSecret == "guess"

\* "30"
DelaySecondsHeader == <<"3","0">>

\* Headers of a request the dynamic variant accepts
ValidHeaders ==
    ("x-webhook-url" :> CHOOSE u \in WebhookUrlInputs : TRUE)
    @@ ("x-delay-seconds" :> DelaySecondsHeader)
    @@ ("x-webhook-secret" :> Secret)

Request(method, pathname, headers, searchParams) ==
    [method |-> method, pathname |-> pathname,
     headers |-> headers, searchParams |-> searchParams]

\* Every method on every path, with headers that would be accepted
RoutingRequests ==
    { Request(m, p, ValidHeaders, EmptyObject) :
        m \in {"GET", "POST", "PUT", "OPTIONS"}, p \in {"/", "/status", "/hooks"} }

\* POST / with the secret absent, wrong, or given in the query
SecretRequests ==
    { Request("POST", "/", DelProp(ValidHeaders, "x-webhook-secret"), EmptyObject),
      Request("POST", "/", SetProp(ValidHeaders, "x-webhook-secret", WrongSecret), EmptyObject),
      Request("POST", "/", DelProp(ValidHeaders, "x-webhook-secret"), [secret |-> Secret]),
      Request("POST", "/", DelProp(ValidHeaders, "x-webhook-secret"), [secret |-> WrongSecret]),
      Request("POST", "/", SetProp(ValidHeaders, "x-webhook-secret", ""), [secret |-> Secret]) }

\* Values of x-webhook-url: "", "HTTPS://A.Example/build", "ftp://a.example/x",
\* "a.example/build", "https://", "mailto:ops", "file://a b/x", "a://b c/"
\* and " https://a.example:443/a/../build", another way to write the URL of
\* WebhookUrlInputs
WebhookUrlHeaders ==
    { <<>>,
      <<"f","i","l","e",":","/","/","a"," ","b","/","x">>,
      <<"a",":","/","/","b"," ","c","/">>,
      <<" ","h","t","t","p","s",":","/","/","a",".","e","x","a","m","p","l","e",
        ":","4","4","3","/","a","/",".",".","/","b","u","i","l","d">>,
      <<"H","T","T","P","S",":","/","/","A",".","E","x","a","m","p","l","e",
        "/","b","u","i","l","d">>,
      <<"f","t","p",":","/","/","a",".","e","x","a","m","p","l","e","/","x">>,
      <<"a",".","e","x","a","m","p","l","e","/","b","u","i","l","d">>,
      <<"h","t","t","p","s",":","/","/">>,
      <<"m","a","i","l","t","o",":","o","p","s">> }

\* POST / with x-webhook-url absent or one of WebhookUrlHeaders
WebhookUrlRequests ==
    { Request("POST", "/", DelProp(ValidHeaders, "x-webhook-url"), EmptyObject) }
    \cup { Request("POST", "/", SetProp(ValidHeaders, "x-webhook-url", u), EmptyObject) :
             u \in WebhookUrlHeaders }

\* Values of x-delay-seconds: "", "0", "-5", "abc", "30abc", "30.5", "600",
\* "30" after a no-break space, and a 1 followed by 309 zeros, which is
\* Infinity as a double
DelaySecondsHeaders ==
    { <<>>, <<"0">>, <<"-","5">>, <<"a","b","c">>, <<"3","0","a","b","c">>,
      <<"3","0",".","5">>, <<"6","0","0">>, <<"U+00A0","3","0">>,
      [i \in 1..310 |-> IF i = 1 THEN "1" ELSE "0"] }

\* POST / with x-delay-seconds absent or one of DelaySecondsHeaders
DelaySecondsRequests ==
    { Request("POST", "/", DelProp(ValidHeaders, "x-delay-seconds"), EmptyObject) }
    \cup { Request("POST", "/", SetProp(ValidHeaders, "x-delay-seconds", d), EmptyObject) :
             d \in DelaySecondsHeaders }

Requests ==
    RoutingRequests \cup SecretRequests \cup WebhookUrlRequests \cup DelaySecondsRequests

\* A 1 followed by 309 zeros, which Number.parseInt reads as Infinity
InfiniteSeconds == [i \in 1..310 |-> IF i = 1 THEN "1" ELSE "0"]

\* Environment bindings of the deployments the requests are sent to; the
\* last has a BUILD_DELAY_SECONDS that resolveDelayMs turns into Infinity
GatewayEnvs ==
    IF mode = "dynamic" THEN { EmptyObject, [WEBHOOK_SECRET |-> Secret] }
    ELSE { [BUILD_WEBHOOK_URL |-> BuildWebhookUrl, WEBHOOK_SECRET |-> Secret],
           [BUILD_DELAY_SECONDS |-> <<"3","0">>, WEBHOOK_SECRET |-> ""],
           [BUILD_WEBHOOK_URL |-> BuildWebhookUrl,
            BUILD_DELAY_SECONDS |-> InfiniteSeconds] }

GatewayInit ==
    /\ mode \in {"dynamic", "static"}
    /\ env \in GatewayEnvs
    /\ errIn = <<>>
    /\ Fresh

\* Time passes until the alarm is due, within the time the gateway is observed
GatewayWait == WaitUntil(StartTime + GatewayElapsedMs)

GatewayNext ==
    \/ \E request \in Requests : Fetch(request)
    \/ FetchReturn
    \/ GatewayWait
    \/ alarmStale
    \/ alarmNoTarget
    \/ alarmFetch
    \/ \E o \in FetchOutcomes : alarmSuccess(o)
    \/ \E o \in FetchOutcomes : alarmCatch(o)

\* The worker in front of the Durable Object: every schedule request and
\* every status query passes through fetch()
GatewaySpec == GatewayInit /\ [][GatewayNext]_vars

-----------------------------------------------------------------------------
(* truncateError on messages of every length up to MaxMessageLen *)

\* Messages of every length: one whose characters tell their position, and
\* one made of the characters of the marker
ErrorMessages ==
    { [i \in 1..n |-> Digits[(i % 10) + 1]] : n \in 0..MaxMessageLen }
    \cup { [i \in 1..n |-> "."] : n \in 0..MaxMessageLen }

TruncInit ==
    /\ mode = "dynamic"
    /\ env = EmptyObject
    /\ errIn \in ErrorMessages
    /\ Fresh

\* The catch block of alarm() computes lastError from the error it caught
Truncate ==
    /\ lastOp = "none"
    /\ errOut' = truncateError(errIn)
    /\ lastOp' = "truncate"
    /\ UNCHANGED <<mode, env, storage, alarm, now, pc, local, lastReq, nReq, burst,
                   calls, lastCall, ticks, streak, resp, qpc, errIn, nFetch, inFlight>>

TruncNext == Truncate

TruncSpec == TruncInit /\ [][TruncNext]_vars

-----------------------------------------------------------------------------
(* The handlers write by write: put() and setAlarm() are awaited one after the
   other, so the record is stored before the alarm is armed. While a handler
   awaits a storage operation the input gate delivers no other event. *)

GateOpen == qpc = EmptyObject

\* queueBuild up to `await this.setState(state)`
queuePut(webhookUrl, delayMs) ==
    /\ GateOpen
    /\ nReq < MaxRequests
    /\ storage' = setState(QueuedState(getState, webhookUrl, delayMs))
    /\ qpc' = [handler |-> "queueBuild", alarm |-> Plus(now, delayMs)]
    /\ lastReq' = [at |-> now, delayMs |-> delayMs, scheduledFor |-> Plus(now, delayMs),
                   retryCountBefore |-> RetryCountOf(getState)]
    /\ nReq' = nReq + 1
    /\ burst' = IF pc = "idle" THEN burst + 1 ELSE 0
    /\ calls' = 0
    /\ lastOp' = "queue"
    /\ streak' = 0
    /\ UNCHANGED <<mode, env, alarm, now, pc, local, lastCall, ticks,
                   resp, errIn, errOut, nFetch, inFlight>>

queueBuildPut(webhookUrl, delaySeconds) ==
    /\ mode = "dynamic"
    /\ queuePut(webhookUrl, delaySeconds * 1000)

queueBuildStaticPut ==
    /\ mode = "static"
    /\ queuePut(<<>>, resolveDelayMs)

\* The catch block of alarm() up to `await this.setState(state)`
catchPut(outcome) ==
    /\ GateOpen
    /\ pc = "fetching"
    /\ ~ResponseOk(outcome)
    /\ storage' = setState(FailureState(local, ErrorMessage(outcome)))
    /\ qpc' = [handler |-> "alarm",
               alarm |-> now + getRetryDelayMs(RetryCountOf(local) + 1)]
    /\ burst' = 0
    /\ lastOp' = "alarm_failure"
    /\ streak' = streak + 1
    /\ UNCHANGED <<mode, env, alarm, now, pc, local, lastReq, nReq, calls, lastCall,
                   ticks, resp, errIn, errOut, nFetch, inFlight>>

\* `await this.ctx.storage.setAlarm(...)` of either handler, and its return
setAlarmStep ==
    /\ ~GateOpen
    /\ alarm' = {qpc.alarm}
    /\ qpc' = EmptyObject
    /\ pc' = IF qpc.handler = "alarm" THEN "idle" ELSE pc
    /\ local' = IF qpc.handler = "alarm" THEN EmptyObject ELSE local
    /\ UNCHANGED <<mode, env, storage, now, hist, ticks, resp, errIn, errOut, nFetch,
                   inFlight>>

StepNext ==
    \/ Tick
    \/ WaitForAlarm
    \/ \E u \in WebhookUrlInputs, d \in DelaySecondsInputs : queueBuildPut(u, d)
    \/ queueBuildStaticPut
    \/ \E o \in FetchOutcomes : catchPut(o)
    \/ setAlarmStep
    \/ GateOpen /\ alarmStale
    \/ GateOpen /\ alarmNoTarget
    \/ GateOpen /\ alarmFetch
    \/ GateOpen /\ \E o \in FetchOutcomes : alarmSuccess(o)

StepSpec == Init /\ [][StepNext]_vars

-----------------------------------------------------------------------------
(* The static variant under every kind of BUILD_DELAY_SECONDS *)

\* Values of BUILD_DELAY_SECONDS (none when the binding is missing) with the
\* delay in ms each stands for: missing, "", "60", "0", "-5", "abc", "45s",
\* " 30", "30" after a carriage return, "+7"
DelayCases ==
    { [raw |-> {}, ms |-> 900000],
      [raw |-> {<<>>}, ms |-> 900000],
      [raw |-> {<<"6","0">>}, ms |-> 60000],
      [raw |-> {<<"0">>}, ms |-> 900000],
      [raw |-> {<<"-","5">>}, ms |-> 900000],
      [raw |-> {<<"a","b","c">>}, ms |-> 900000],
      [raw |-> {<<"4","5","s">>}, ms |-> 45000],
      [raw |-> {<<" ","3","0">>}, ms |-> 30000],
      [raw |-> {<<"\r","3","0">>}, ms |-> 30000],
      [raw |-> {<<"+","7">>}, ms |-> 7000] }

DelayEnvs ==
    { WithProp([BUILD_WEBHOOK_URL |-> BuildWebhookUrl], "BUILD_DELAY_SECONDS", c.raw) :
        c \in DelayCases }

DelayInit ==
    /\ mode = "static"
    /\ env \in DelayEnvs
    /\ errIn = <<>>
    /\ Fresh

DelayNext ==
    \/ queueBuildStatic
    \/ GatewayWait
    \/ alarmStale
    \/ alarmFetch
    \/ \E o \in FetchOutcomes : alarmSuccess(o)
    \/ \E o \in FetchOutcomes : alarmCatch(o)

DelaySpec == DelayInit /\ [][DelayNext]_vars

-----------------------------------------------------------------------------
(* alarm() interrupted: the object is reset while alarm() runs, what it holds
   in memory is lost, and the runtime, which delivers an alarm at least once,
   delivers it again unless setAlarm() has armed another one meanwhile *)

\* The alarm slot after an interrupted alarm(): the alarm is due again
Redelivered == IF alarm = {} THEN {now} ELSE alarm

\* alarm() is interrupted between the timer firing and the put of the record
alarmCrash ==
    /\ pc = "fetching"
    /\ calls <= MaxRedeliveries
    /\ alarm' = Redelivered
    /\ pc' = "idle"
    /\ local' = EmptyObject
    /\ lastOp' = "alarm_crash"
    /\ UNCHANGED <<mode, env, storage, now, lastReq, nReq, burst, calls, lastCall,
                   ticks, streak>>
    /\ UNCHANGED aux

\* alarm() is interrupted after the put of its success path, before it returns
alarmCrashAfterSuccess(outcome) ==
    /\ pc = "fetching"
    /\ ResponseOk(outcome)
    /\ storage' = setState(SuccessState(local))
    /\ alarm' = Redelivered
    /\ pc' = "idle"
    /\ local' = EmptyObject
    /\ burst' = 0
    /\ lastOp' = "alarm_success_crash"
    /\ streak' = 0
    /\ UNCHANGED <<mode, env, now, lastReq, nReq, calls, lastCall, ticks>>
    /\ UNCHANGED aux

CrashNext ==
    \/ \E u \in WebhookUrlInputs, d \in DelaySecondsInputs : queueBuild(u, d)
    \/ queueBuildStatic
    \/ GatewayWait
    \/ alarmStale
    \/ alarmNoTarget
    \/ alarmFetch
    \/ \E o \in FetchOutcomes : alarmSuccess(o)
    \/ \E o \in FetchOutcomes : alarmCatch(o)
    \/ alarmCrash
    \/ \E o \in FetchOutcomes : alarmCrashAfterSuccess(o)

CrashSpec == Init /\ [][CrashNext]_vars

-----------------------------------------------------------------------------
(* Properties *)

Stored == storage[STATE_KEY]

IsStored == Has(storage, STATE_KEY)

Horizon == StartTime + MaxElapsedMs

\* The record and the alarm right after an accepted queueBuild call with delayMs
QueuePost(delayMs) ==
    /\ Has(storage', STATE_KEY)
    /\ storage'[STATE_KEY].scheduledFor = now + delayMs
    /\ storage'[STATE_KEY].lastWebhookAt = now
    /\ storage'[STATE_KEY].delayMs = delayMs
    /\ storage'[STATE_KEY].retryCount = 0
    /\ alarm' = {now + delayMs}

\* C1: every accepted queueBuild call made at time now with a positive integer
\* delaySeconds leaves the stored record with scheduledFor = now +
\* delaySeconds*1000, lastWebhookAt = now, delayMs = delaySeconds*1000 and
\* retryCount = 0, whatever retryCount was before, and the alarm armed for
\* exactly that scheduledFor.
C1_QueueBuildSchedules ==
    [][ /\ \A u \in WebhookUrlInputs, d \in DelaySecondsInputs :
              queueBuild(u, d) => QueuePost(d * 1000)
        /\ queueBuildStatic => QueuePost(resolveDelayMs) ]_vars

\* C1 witness: a queueBuild call has reset a retryCount that was >= 1
C1_Witness ==
    /\ lastOp = "queue"
    /\ lastReq.retryCountBefore >= 1
    /\ IsStored /\ Stored.retryCount = 0
    /\ alarm = {lastReq.at + lastReq.delayMs}

\* C2: when two or more queueBuild calls are accepted with no alarm() run in
\* between, the stored scheduledFor and the one armed alarm are those of the
\* last call and no trigger call has been made for the burst; the trigger call
\* that follows the burst starts no earlier than the last call's scheduledFor,
\* and when it succeeds it is the only trigger call: nothing stays scheduled
\* or armed.
C2_Coalescing ==
    /\ burst >= 2 =>
          /\ pc = "idle"
          /\ IsStored /\ Stored.scheduledFor = lastReq.scheduledFor
          /\ alarm = {lastReq.scheduledFor}
          /\ calls = 0
    /\ (Has(lastCall, "at") /\ lastCall.burst >= 2) =>
          /\ lastCall.at >= lastCall.req.scheduledFor
          /\ (lastOp = "alarm_fetch" => calls = 1)
          /\ (lastOp = "alarm_success" /\ calls >= 1) =>
                (calls = 1 /\ alarm = {} /\ ~Has(Stored, "scheduledFor"))

\* C2 witness: a burst of two calls with different schedules was followed by
\* one successful trigger call
C2_Witness ==
    /\ Has(lastCall, "at") /\ lastCall.burst >= 2
    /\ lastCall.req.retryCountBefore = 0
    /\ lastOp = "alarm_success"
    /\ calls = 1

\* C3: no trigger call starts earlier than delayMs after the most recent
\* accepted queueBuild call.
C3_DebounceDelay ==
    (Has(lastCall, "at") /\ Has(lastCall.req, "at")) =>
        lastCall.at >= lastCall.req.at + lastCall.req.delayMs

\* The record and the alarm right after alarm() handled a success response
SuccessPost ==
    /\ Has(storage', STATE_KEY)
    /\ ~Has(storage'[STATE_KEY], "scheduledFor")
    /\ storage'[STATE_KEY].retryCount = 0
    /\ storage'[STATE_KEY].lastBuildStatus = "success"
    /\ ~Has(storage'[STATE_KEY], "lastError")
    /\ storage'[STATE_KEY].lastBuildAt = now
    /\ alarm' = alarm
    /\ pc' = "idle"

\* C4: when the trigger call of alarm() returns a success status, the stored
\* record afterwards has scheduledFor unset, retryCount = 0, lastBuildStatus =
\* success, lastError unset and lastBuildAt = the completion time, and alarm()
\* arms no alarm, for any prior retryCount.
C4_SuccessReturnsToIdle ==
    [][ (pc = "fetching" /\ lastOp' = "alarm_success") => SuccessPost ]_vars

\* C4 witness: a successful retry after a failure
C4_Witness ==
    /\ lastOp = "alarm_success"
    /\ calls >= 2
    /\ IsStored /\ ~Has(Stored, "scheduledFor") /\ Stored.retryCount = 0
    /\ alarm = {}

\* The backoff table as the documentation states it
BackoffMs(n) == IF n = 1 THEN 60000 ELSE IF n = 2 THEN 120000 ELSE 300000

\* The record and the alarm right after alarm() handled a failed trigger call
FailurePost ==
    /\ Has(storage', STATE_KEY)
    /\ storage'[STATE_KEY].retryCount = RetryCountOf(local) + 1
    /\ storage'[STATE_KEY].lastBuildStatus = "error"
    /\ storage'[STATE_KEY].lastBuildAt = now
    /\ storage'[STATE_KEY].scheduledFor = now + BackoffMs(storage'[STATE_KEY].retryCount)
    /\ alarm' = {storage'[STATE_KEY].scheduledFor}

\* C5: when the trigger call of alarm() fails, retryCount becomes the value
\* alarm() read plus 1, lastBuildStatus = error, and the new scheduledFor and
\* the re-armed alarm are failureTime + 60000 ms for retryCount 1, + 120000 ms
\* for 2 and + 300000 ms for every retryCount >= 3.
C5_FailureBackoff ==
    [][ (pc = "fetching" /\ lastOp' = "alarm_failure") => FailurePost ]_vars

\* C5 witness: the fourth consecutive failure (retryCount 3 -> 4)
C5_Witness ==
    /\ lastOp = "alarm_failure"
    /\ IsStored /\ Stored.retryCount = 4
    /\ alarm = {Stored.lastBuildAt + 300000}

\* C6: there is no maximum retry count: after every failed trigger call, for
\* every value of retryCount, whose retry time lies within the model's
\* horizon, another trigger call is eventually started unless a new queueBuild
\* call supersedes the retry; as long as the failure is the last thing that
\* happened the alarm is armed for the stored scheduledFor.
C6_RetriesContinue ==
    /\ [](lastOp = "alarm_failure" => alarm = {Stored.scheduledFor})
    /\ (lastOp = "alarm_failure" /\ Stored.scheduledFor <= Horizon)
          ~> (lastOp = "alarm_fetch" \/ lastOp = "queue")

\* C6 witness: a trigger call started after four consecutive failures
C6_Witness ==
    /\ lastOp = "alarm_fetch"
    /\ RetryCountOf(local) = 4

\* C7 as stated: after the third failed retry of one scheduled execution (four
\* failed trigger calls) no further trigger call is made for it.
C7_Original == calls <= 4

\* C7 amended: retries are not capped at 3; after the third failed retry, and
\* after every later failure, the alarm is armed again 300000 ms after the
\* failure for the stored scheduledFor.
C7_RetriesNotCapped ==
    (lastOp = "alarm_failure" /\ calls >= 4) =>
        /\ Stored.retryCount >= 4
        /\ Stored.scheduledFor = Stored.lastBuildAt + 300000
        /\ alarm = {Stored.scheduledFor}

\* C7 witness: a fifth trigger call for one scheduled execution
C7_Witness == lastOp = "alarm_fetch" /\ calls = 5

\* C8: whenever no operation is in progress and scheduledFor is set in the
\* stored record, an alarm is armed for exactly that scheduledFor.
C8_ScheduledImpliesArmed ==
    (pc = "idle" /\ IsStored /\ TruthyNum(Stored, "scheduledFor")) =>
        alarm = {Stored.scheduledFor}

\* C9: when alarm() runs while scheduledFor is unset it performs no trigger
\* call, leaves the stored record unchanged and arms no alarm.
C9_StaleAlarmNoOp ==
    [][ (alarmRun /\ ~TruthyNum(getState, "scheduledFor")) =>
            /\ storage' = storage
            /\ alarm' = {}
            /\ pc' = "idle"
            /\ calls' = calls /\ lastCall' = lastCall ]_vars

\* C9 witness: alarm() ran with scheduledFor unset
C9_Witness ==
    /\ lastOp = "alarm_stale"
    /\ IsStored /\ ~Has(Stored, "scheduledFor")
    /\ alarm = {}

\* C10: when alarm() runs with scheduledFor set and no target configured, it
\* makes no trigger call, sets lastBuildAt = now, lastBuildStatus = error and
\* lastError to the configuration-error message, increments retryCount by 1
\* and arms no alarm, so alarm() does not run again before the next queueBuild.
C10_ConfigErrorTerminal ==
    /\ [][ (alarmRun /\ TruthyNum(getState, "scheduledFor") /\ ~HasTarget(getState)) =>
              /\ Has(storage', STATE_KEY)
              /\ storage'[STATE_KEY].lastBuildAt = now
              /\ storage'[STATE_KEY].lastBuildStatus = "error"
              /\ storage'[STATE_KEY].lastError \in {NoWebhookUrlMessage, NotConfiguredMessage}
              /\ storage'[STATE_KEY].retryCount = RetryCountOf(getState) + 1
              /\ alarm' = {}
              /\ pc' = "idle"
              /\ calls' = calls /\ lastCall' = lastCall ]_vars
    /\ [](lastOp = "alarm_no_target" => (alarm = {} /\ pc = "idle" /\ ~ENABLED alarmRun))

\* C10 witness: alarm() recorded a configuration error
C10_Witness ==
    /\ lastOp = "alarm_no_target"
    /\ IsStored /\ Stored.lastBuildStatus = "error" /\ Stored.retryCount = 1
    /\ Stored.lastError = NotConfiguredMessage

-----------------------------------------------------------------------------
(* The gateway *)

\* The record and the alarm are as before the request
RecordUntouched == storage' = storage /\ alarm' = alarm

\* s is a decimal numeral: an optional sign, digits, an optional fraction,
\* after white space if any
IsNumeral(s) ==
    LET u == SkipSpaces(s)
        t == IF Len(u) > 0 /\ Head(u) \in {"+", "-"} THEN Tail(u) ELSE u
        dot == IndexOf(t, ".")
        int == IF dot = 0 THEN t ELSE SubSeq(t, 1, dot - 1)
        frac == IF dot = 0 THEN <<"0">> ELSE SubSeq(t, dot + 1, Len(t))
    IN  /\ Len(int) > 0 /\ \A i \in 1..Len(int) : IsDigit(int[i])
        /\ Len(frac) > 0 /\ \A i \in 1..Len(frac) : IsDigit(frac[i])

\* The numeral s denotes a number greater than 0
IsPositiveNumeral(s) ==
    /\ IsNumeral(s)
    /\ Head(SkipSpaces(s)) # "-"
    /\ \E i \in 1..Len(s) : IsDigit(s[i]) /\ s[i] # "0"

\* The step is one of the worker's fetch(), not the return of its call
FetchStep ==
    \/ nFetch' = nFetch + 1 /\ inFlight' = inFlight
    \/ nFetch' = nFetch /\ inFlight' # inFlight

\* The step answers the request with the given status, awaiting nothing
AnsweredAtOnce(status) ==
    nFetch' = nFetch + 1 /\ inFlight' = inFlight /\ resp'.status = status

\* The step leaves the response to be given when the worker resumes
Awaited(status, body) ==
    /\ inFlight' = Sent(inFlight, [status |-> status, body |-> body])
    /\ UNCHANGED <<resp, nFetch>>

\* x-webhook-url is missing, unparsable or not http/https
BadWebhookUrl(request) ==
    \/ ~TruthyChars(request.headers, "x-webhook-url")
    \/ ~parseUrl(request.headers["x-webhook-url"]).ok
    \/ parseUrl(request.headers["x-webhook-url"]).protocol \notin
           { <<"h","t","t","p",":">>, <<"h","t","t","p","s",":">> }

\* x-delay-seconds is missing, not a finite number or not positive
BadDelaySeconds(request) ==
    \/ ~TruthyChars(request.headers, "x-delay-seconds")
    \/ ~IsPositiveNumeral(request.headers["x-delay-seconds"])

\* C11: in the dynamic variant an authorized POST whose x-webhook-url is
\* missing, unparsable or not http/https, or whose x-delay-seconds is missing,
\* not a finite number or not positive, is answered with 400 and leaves the
\* record and the alarm as they were.
C11_InvalidInputRejected ==
    [][ FetchStep => \A request \in Requests :
          ( /\ mode = "dynamic"
            /\ request.method = "POST"
            /\ ~Unauthorized(request)
            /\ BadWebhookUrl(request) \/ BadDelaySeconds(request)
            /\ Fetch(request) )
          => (AnsweredAtOnce(400) /\ RecordUntouched) ]_vars

\* The secrets a request provides, in the header or in the query
SecretsGiven(request) ==
    Prop(request.headers, "x-webhook-secret") \cup Prop(request.searchParams, "secret")

\* C12: with a secret configured, a POST that provides no secret or only
\* secrets different from the configured one is answered with 401, leaves the
\* record and the alarm as they were and is not scheduled: a request is
\* scheduled only when it provides the configured secret or no secret is
\* configured.
C12_Authorization ==
    [][ FetchStep => \A request \in Requests :
          ( /\ request.method = "POST"
            /\ TruthyStr(env, "WEBHOOK_SECRET")
            /\ env.WEBHOOK_SECRET \notin SecretsGiven(request)
            /\ Fetch(request) )
          => (AnsweredAtOnce(401) /\ RecordUntouched /\ nReq' = nReq) ]_vars

\* A request was rejected with 401 after another had been scheduled
C12_Witness ==
    /\ Has(resp, "status") /\ resp.status = 401
    /\ nReq = 1 /\ nFetch = 2
    /\ IsStored /\ Stored.scheduledFor = lastReq.scheduledFor

\* C13: a request that is not OPTIONS, not POST to the root and not GET
\* /status is answered with 404 and leaves the record and the alarm as they
\* were.
C13_Routing ==
    [][ FetchStep => \A request \in Requests :
          ( /\ request.method # "OPTIONS"
            /\ ~(request.method = "POST" /\ request.pathname = "/")
            /\ ~(request.method = "GET" /\ request.pathname = "/status")
            /\ Fetch(request) )
          => (AnsweredAtOnce(404) /\ RecordUntouched) ]_vars

\* The last request was answered with the given status
Answered(status) == Has(resp, "status") /\ resp.status = status

\* C14: a status query that reaches the Durable Object before any queueBuild
\* or alarm() has run is answered, when the worker resumes, with retryCount 0
\* and no other field.
C14_FreshStatus ==
    [][ inFlight' # inFlight => \A request \in Requests :
          ( /\ request.method = "GET"
            /\ request.pathname = "/status"
            /\ lastOp = "none" /\ ~IsStored
            /\ Fetch(request) )
          => Awaited(200, [retryCount |-> 0]) ]_vars

\* The status of a record nothing had been stored in reached the caller,
\* after a queueBuild that ran in between had stored the record
C14_Witness ==
    /\ Answered(200) /\ DOMAIN resp.body = {"retryCount"}
    /\ resp.body.retryCount = 0
    /\ IsStored /\ lastOp = "queue"

\* C15: the message stored as lastError has at most 500 characters; a message
\* longer than 500 characters is stored as its first 497 characters followed
\* by "...", 500 characters in all, and a shorter one is stored unchanged.
C15_ErrorTruncated ==
    /\ lastOp = "truncate" =>
         /\ Len(errOut) <= 500
         /\ Len(errIn) > 500 =>
              /\ Len(errOut) = 500
              /\ SubSeq(errOut, 1, 497) = SubSeq(errIn, 1, 497)
              /\ SubSeq(errOut, 498, 500) = <<".", ".", ".">>
         /\ Len(errIn) <= 500 => errOut = errIn
    /\ (IsStored /\ Has(Stored, "lastError")) => Len(Stored.lastError) <= 500

\* A message of 501 characters was cut to 500
C15_Witness ==
    lastOp = "truncate" /\ Len(errIn) = 501 /\ Len(errOut) = 500 /\ errOut[497] = "7"

\* alarm() has returned after a trigger call during which queueBuild was accepted
QueuedDuringCall ==
    /\ pc = "idle"
    /\ lastOp \in {"alarm_success", "alarm_failure"}
    /\ nReq > 0 /\ calls = 0

\* C16: with a target configured, an accepted queueBuild that no trigger call
\* has been started for yet is still pending: the alarm is armed or alarm() is
\* running; otherwise, with no further request, no trigger call follows it.
C16_AcceptedRequestPending ==
    (nReq > 0 /\ calls = 0 /\ HasTarget(getState)) => (alarm # {} \/ pc # "idle")

\* C17: once alarm() and a queueBuild accepted during its trigger call have
\* both completed, the record carries the scheduledFor, lastWebhookAt and
\* delayMs of that queueBuild with retryCount 0, and the alarm is armed for
\* that scheduledFor.
C17_QueueDuringCallNotLost ==
    QueuedDuringCall =>
        /\ Prop(getState, "scheduledFor") = {lastReq.scheduledFor}
        /\ Prop(getState, "lastWebhookAt") = {lastReq.at}
        /\ Prop(getState, "delayMs") = {lastReq.delayMs}
        /\ RetryCountOf(getState) = 0
        /\ alarm = {lastReq.scheduledFor}

\* C19: retryCount equals the number of alarm() runs that recorded a failure
\* since the most recent of creation, success and accepted queueBuild.
C19_RetryCountIsStreak == RetryCountOf(getState) = streak

\* C18: whenever a handler has stored a record with a new scheduledFor and
\* has not returned yet, the alarm is armed for that scheduledFor.
C18_TimerArmedWithRecord ==
    (~GateOpen /\ TruthyNum(getState, "scheduledFor")) =>
        alarm = {getState.scheduledFor}

\* The step leaves a response with status 200 to be given when the worker
\* resumes
AwaitedOk ==
    /\ \E response \in DOMAIN inFlight' :
          response.status = 200 /\ inFlight' = Sent(inFlight, response)
    /\ UNCHANGED <<resp, nFetch>>

\* C20: a status query always returns, with 200 and never with an error; it
\* changes neither the record nor the alarm and starts no trigger call; the
\* record changes only in steps of queueBuild and alarm().
C20_StatusPureRead ==
    [][ /\ FetchStep =>
             \A request \in Requests :
               ( /\ request.method = "GET"
                 /\ request.pathname = "/status"
                 /\ Fetch(request) )
               => /\ AwaitedOk
                  /\ RecordUntouched
                  /\ pc' = pc /\ calls' = calls /\ lastCall' = lastCall
        /\ storage' # storage =>
             \/ nReq' = nReq + 1 /\ lastOp' = "queue"
             \/ pc = "fetching" /\ pc' = "idle"
             \/ AlarmDue /\ lastOp' = "alarm_no_target" ]_vars

-----------------------------------------------------------------------------
(* The fields of the record against each other *)

\* lastError is set exactly when lastBuildStatus is "error"
ErrorIffFailed(state) ==
    Has(state, "lastError") <=> Prop(state, "lastBuildStatus") = {"error"}

\* C22: lastError is set if and only if lastBuildStatus is "error"; every
\* failed alarm() sets it, every successful alarm() clears it, and queueBuild
\* leaves it and lastBuildStatus as they were while it resets retryCount.
C22_LastErrorIffError ==
    [][ /\ ErrorIffFailed(getState')
        /\ lastOp' \in {"alarm_failure", "alarm_no_target"} =>
             Has(getState', "lastError") /\ Len(getState'.lastError) > 0
        /\ lastOp' = "alarm_success" => ~Has(getState', "lastError")
        /\ nReq' = nReq + 1 =>
             /\ Prop(getState', "lastError") = Prop(getState, "lastError")
             /\ Prop(getState', "lastBuildStatus") = Prop(getState, "lastBuildStatus")
             /\ RetryCountOf(getState') = 0 ]_vars

\* A request was accepted after a failure: retryCount is 0 and the error of
\* the last attempt is still recorded
C22_Witness ==
    /\ lastOp = "queue" /\ pc = "idle"
    /\ RetryCountOf(getState) = 0
    /\ Prop(getState, "lastBuildStatus") = {"error"}
    /\ Has(getState, "lastError")

\* C23: a record without scheduledFor has retryCount 0, and a record with
\* retryCount >= 1 has scheduledFor set and lastBuildStatus "error".
C23_RetryCountVsSchedule ==
    /\ ~TruthyNum(getState, "scheduledFor") => RetryCountOf(getState) = 0
    /\ RetryCountOf(getState) >= 1 =>
         /\ TruthyNum(getState, "scheduledFor")
         /\ Prop(getState, "lastBuildStatus") = {"error"}

\* A success after a failure: the record is idle again with retryCount 0
C23_Witness ==
    /\ lastOp = "alarm_success" /\ calls >= 2
    /\ ~Has(getState, "scheduledFor") /\ RetryCountOf(getState) = 0

\* The delay BUILD_DELAY_SECONDS of this deployment stands for
ConfiguredDelayMs ==
    (CHOOSE c \in DelayCases : c.raw = Prop(env, "BUILD_DELAY_SECONDS")).ms

\* C24: in the static variant every accepted queueBuild uses the configured
\* seconds * 1000, or 900000 ms when BUILD_DELAY_SECONDS is missing,
\* unparsable, zero or negative; the stored delayMs is positive and
\* scheduledFor is later than lastWebhookAt.
C24_StaticDelay ==
    (mode = "static" /\ nReq > 0) =>
        /\ lastReq.delayMs = ConfiguredDelayMs
        /\ lastReq.scheduledFor = lastReq.at + ConfiguredDelayMs
        /\ getState.delayMs = ConfiguredDelayMs
        /\ getState.delayMs > 0
        /\ TruthyNum(getState, "scheduledFor") =>
               getState.scheduledFor > getState.lastWebhookAt

\* The default was used for a configured delay of 0 seconds
C24_Witness ==
    /\ mode = "static" /\ lastOp = "queue"
    /\ Prop(env, "BUILD_DELAY_SECONDS") = {<<"0">>}
    /\ getState.delayMs = 900000
    /\ getState.scheduledFor = getState.lastWebhookAt + 900000

-----------------------------------------------------------------------------
(* alarm() delivered again *)

\* C21: an interrupted alarm() leaves the record as it was; the alarm() that
\* runs on redelivery ends like an uninterrupted one, idle after a success or
\* retrying with the alarm armed for scheduledFor after a failure; and every
\* trigger call is made for the schedule the record holds, which is due, so a
\* redelivery after the schedule was cleared or replaced makes no call for
\* the old one.
C21_RedeliverySafe ==
    [][ /\ lastOp' = "alarm_crash" => storage' = storage
        /\ (pc = "fetching" /\ lastOp' = "alarm_success") => SuccessPost
        /\ (pc = "fetching" /\ lastOp' = "alarm_failure") => FailurePost
        /\ calls' = calls + 1 =>
             /\ TruthyNum(getState, "scheduledFor")
             /\ getState.scheduledFor <= now
             /\ lastCall'.url = TargetUrl(getState) ]_vars

\* alarm() was interrupted in its first trigger call; the redelivered one
\* failed and the record is retrying with the alarm armed
C21_Witness ==
    /\ lastOp = "alarm_failure" /\ nReq = 1 /\ calls = 2 /\ streak = 1
    /\ RetryCountOf(getState) = 1
    /\ alarm = {getState.scheduledFor}

===============================================================================
